---------------------------- MODULE Spec2Model ----------------------------
(***************************************************************************)
(* Model of the Conduit article/profile repository                         *)
(* (src/conduit/articles_repository.rs).                                   *)
(*                                                                         *)
(* The Repository facade is translated operation by operation.  The        *)
(* storage adapters it calls (modules articles, favorites, followers,      *)
(* users) and the domain conversions live outside the file; they are       *)
(* modelled from their contract (spec.md 4.3 and 6) and are the operators  *)
(* whose names start with articles_, favorites_, followers_, users_.       *)
(* Every adapter call runs in its own transaction and is one atomic step;  *)
(* a repository operation that makes several adapter calls is several      *)
(* steps, and other callers' steps interleave between them.                *)
(***************************************************************************)
EXTENDS Integers, Sequences, FiniteSets, TLC

VARIABLES
    articles,   \* table articles: a set of rows
    favorites,  \* table favorites: a set of <<user_id, slug>>
    followers,  \* table followers: a set of <<follower_id, followed_id>>
    now,        \* the store's commit-time clock
    inflight,   \* update_article calls between their write and their re-read
    last,       \* the repository call step executed last, with its result
    view        \* the caller reading and assembling views: its call, its result

vars == <<articles, favorites, followers, now, inflight, last, view>>

----------------------------------------------------------------------------
(* Bounds of the model *)

MaxClock == 1

MaxBatch == 2

MaxInflight == 1

----------------------------------------------------------------------------
(* Data *)

\* users(id, email, username, bio, image): created by an out-of-scope
\* registration path and never destroyed by this core.
UserRows ==
    { [id |-> "u1", email |-> "alice@x", username |-> "alice",
       bio |-> "hi", image |-> "a.png"],
      [id |-> "u2", email |-> "bob@x", username |-> "bob",
       bio |-> "", image |-> ""] }

UserIds == { u.id : u \in UserRows }

Titles == { "Hello, World", "Hello World", "Second Post" }

\* The follow rows: written only by operations outside this file.
InitialFollowers == { <<"u2", "u1">> }

\* ArticleContent::slug(): the canonical slug of a title.  Lower-cases,
\* drops punctuation and joins the words with '-', so it is not injective.
slug(content) ==
    CASE content.title = "Hello, World" -> "hello-world"
      [] content.title = "Hello World"  -> "hello-world"
      [] content.title = "Second Post"  -> "second-post"
      [] content.title = "Retitled"     -> "retitled"

Slugs == { "hello-world", "second-post" }

\* The drafts callers publish; the first two have the same slug.
Drafts ==
    { [title |-> "Hello, World", description |-> "greet", body |-> "b1",
       tag_list |-> {"intro"}],
      [title |-> "Hello World", description |-> "again", body |-> "b2",
       tag_list |-> {}],
      [title |-> "Second Post", description |-> "greet", body |-> "b1",
       tag_list |-> {"intro"}] }

\* ArticleUpdate: an optional-field patch; <<>> is None, <<v>> is Some(v).
Updates ==
    { [title |-> <<"Retitled">>, description |-> <<>>, body |-> <<"b2">>] }


\* find_articles: the default of an absent limit and the cap on a limit.
DefaultLimit == 20

MaxLimit == 100

\* ArticleQuery: optional criteria and an optional window.
Queries ==
    [author : {<<>>, <<"alice">>, <<"bob">>},
     favorited : {<<>>, <<"bob">>},
     tag : {<<>>, <<"intro">>},
     limit : {<<>>, <<-1>>, <<1>>, <<200>>},
     offset : {<<>>, <<-1>>, <<1>>}]

\* The slugs in ascending (lexicographic) order.
SlugOrder == <<"hello-world", "retitled", "second-post">>

----------------------------------------------------------------------------
(* Results.  Every operation returns Ok(value) or Err(error). *)

Ok(v) == [tag |-> "Ok", value |-> v]

Err(e) == [tag |-> "Err", error |-> e]

IsOk(r) == r.tag = "Ok"

\* What an operation hands back to its step: the store it leaves, its result.
Ret(db, res) == [db |-> db, res |-> res]

\* The store as the adapters see it through one connection.
DB == [articles |-> articles, favorites |-> favorites, followers |-> followers]

----------------------------------------------------------------------------
(* Domain entities and conversions (crate::domain, crate::db::models) *)

Profile(username, bio, image) ==
    [username |-> username, bio |-> bio, image |-> image]

User(id, email, profile) == [id |-> id, email |-> email, profile |-> profile]

ArticleMetadata(created_at, updated_at) ==
    [created_at |-> created_at, updated_at |-> updated_at]

Article(content, s, author, metadata, favorites_count) ==
    [content |-> content, slug |-> s, author |-> author,
     metadata |-> metadata, favorites_count |-> favorites_count]

\* NewArticle::from((&draft, author)): the row to insert.
NewArticle(draft, author) ==
    [title |-> draft.title, description |-> draft.description,
     body |-> draft.body, tag_list |-> draft.tag_list,
     slug |-> slug(draft), author_id |-> author.id]

\* (&update).into(): the changeset of a patch, field by field.
UpdateArticle(update) ==
    [title |-> update.title, description |-> update.description,
     body |-> update.body]

RowOf(db, s) == CHOOSE r \in db.articles : r.slug = s

HasRow(db, s) == \E r \in db.articles : r.slug = s

UserRowOf(id) == CHOOSE u \in UserRows : u.id = id

\* The row-to-entity mapping of an article row joined with its author.
ArticleOfRow(row) ==
    LET u == UserRowOf(row.author_id) IN
    Article([title |-> row.title, description |-> row.description,
             body |-> row.body, tag_list |-> row.tag_list],
            row.slug,
            Profile(u.username, u.bio, u.image),
            ArticleMetadata(row.created_at, row.updated_at),
            row.favorites_count)

----------------------------------------------------------------------------
(* Storage adapters (contract: spec.md 4.3, 6).  up = FALSE is a storage   *)
(* failure of the call (connection loss, deadlock): nothing is written.    *)

articles_insert(db, new, t, up) ==
    IF ~up THEN Ret(db, Err("Storage"))
    ELSE IF HasRow(db, new.slug) THEN Ret(db, Err("UniqueViolation"))
    ELSE IF new.author_id \notin UserIds
    THEN Ret(db, Err("ForeignKeyViolation"))
    ELSE LET row == [slug |-> new.slug, title |-> new.title,
                     description |-> new.description, body |-> new.body,
                     tag_list |-> new.tag_list, author_id |-> new.author_id,
                     favorites_count |-> 0,
                     created_at |-> t, updated_at |-> t]
         IN Ret([db EXCEPT !.articles = @ \cup {row}], Ok(row))

articles_find_one(db, s, up) ==
    IF ~up THEN Ret(db, Err("Storage"))
    ELSE IF ~HasRow(db, s) THEN Ret(db, Err("NotFound"))
    ELSE Ret(db, Ok(ArticleOfRow(RowOf(db, s))))

Patched(old, field) == IF field = <<>> THEN old ELSE field[1]

articles_update(db, patch, s, t, up) ==
    IF ~up THEN Ret(db, Err("Storage"))
    ELSE Ret([db EXCEPT !.articles =
                { IF r.slug = s
                  THEN [r EXCEPT !.title = Patched(@, patch.title),
                                 !.description = Patched(@, patch.description),
                                 !.body = Patched(@, patch.body),
                                 !.updated_at = t]
                  ELSE r : r \in @ }],
             Ok("unit"))

\* Mutant: the article's row goes, its favorite rows stay.
articles_delete_no_cascade(db, s, up) ==
    IF ~up THEN Ret(db, Err("Storage"))
    ELSE Ret([db EXCEPT !.articles = { r \in @ : r.slug # s }], Ok("unit"))

articles_delete(db, s, up) ==
    IF ~up THEN Ret(db, Err("Storage"))
    ELSE Ret([db EXCEPT !.articles = { r \in @ : r.slug # s },
                        !.favorites = { f \in @ : f[2] # s }],
             Ok("unit"))

SlugRank(s) == CHOOSE i \in 1..Len(SlugOrder) : SlugOrder[i] = s

\* ORDER BY created_at DESC, slug ASC.
Before(r1, r2) ==
    \/ r1.created_at > r2.created_at
    \/ r1.created_at = r2.created_at /\ SlugRank(r1.slug) < SlugRank(r2.slug)

RECURSIVE SortRows(_)
SortRows(rows) ==
    IF rows = {} THEN <<>>
    ELSE LET first == CHOOSE r \in rows : \A o \in rows \ {r} : Before(r, o)
         IN <<first>> \o SortRows(rows \ {first})

\* WHERE: every criterion the query has.
Matches(db, query, r) ==
    /\ query.author # <<>> => UserRowOf(r.author_id).username = query.author[1]
    /\ query.favorited # <<>> =>
          \E u \in UserRows : /\ u.username = query.favorited[1]
                               /\ <<u.id, r.slug>> \in db.favorites
    /\ query.tag # <<>> => query.tag[1] \in r.tag_list

QueryLimit(query) ==
    LET n == IF query.limit = <<>> THEN DefaultLimit ELSE query.limit[1] IN
    IF n < 0 THEN 0 ELSE IF n > MaxLimit THEN MaxLimit ELSE n

QueryOffset(query) ==
    LET n == IF query.offset = <<>> THEN 0 ELSE query.offset[1] IN
    IF n < 0 THEN 0 ELSE n

\* LIMIT QueryLimit OFFSET QueryOffset.
Window(xs, query) ==
    LET from == QueryOffset(query) + 1
        to == IF QueryOffset(query) + QueryLimit(query) < Len(xs)
              THEN QueryOffset(query) + QueryLimit(query) ELSE Len(xs)
    IN IF from > to THEN <<>> ELSE SubSeq(xs, from, to)

articles_find(db, query, up) ==
    IF ~up THEN Ret(db, Err("Storage"))
    ELSE Ret(db, Ok(Window(SortRows({ r \in db.articles : Matches(db, query, r) }),
                           query)))

CountOf(db, s) == IF HasRow(db, s) THEN RowOf(db, s).favorites_count ELSE 0

Outcome(kind, db, s) == [outcome |-> kind, favorites_count |-> CountOf(db, s)]

BumpCount(db, s, d) ==
    [db EXCEPT !.articles =
        { IF r.slug = s THEN [r EXCEPT !.favorites_count = @ + d] ELSE r
          : r \in @ }]

favorites_favorite(db, user_id, s, up) ==
    IF ~up THEN Ret(db, Err("Storage"))
    ELSE IF ~HasRow(db, s) \/ user_id \notin UserIds
    THEN Ret(db, Err("ForeignKeyViolation"))
    ELSE IF <<user_id, s>> \in db.favorites
    THEN Ret(db, Ok(Outcome("AlreadyFavorited", db, s)))
    ELSE LET db2 == BumpCount([db EXCEPT !.favorites = @ \cup {<<user_id, s>>}],
                              s, 1)
         IN Ret(db2, Ok(Outcome("NewFavorite", db2, s)))

\* Mutant: the count is taken down whether or not a row was removed.
favorites_unfavorite_always_decrements(db, user_id, s, up) ==
    IF ~up THEN Ret(db, Err("Storage"))
    ELSE LET kind == IF <<user_id, s>> \in db.favorites
                     THEN "WasFavorited" ELSE "WasNotFavorited"
             db2 == BumpCount([db EXCEPT !.favorites = @ \ {<<user_id, s>>}],
                              s, -1)
         IN Ret(db2, Ok(Outcome(kind, db2, s)))

favorites_unfavorite(db, user_id, s, up) ==
    IF ~up THEN Ret(db, Err("Storage"))
    ELSE IF <<user_id, s>> \notin db.favorites
    THEN Ret(db, Ok(Outcome("WasNotFavorited", db, s)))
    ELSE LET db2 == BumpCount([db EXCEPT !.favorites = @ \ {<<user_id, s>>}],
                              s, -1)
         IN Ret(db2, Ok(Outcome("WasFavorited", db2, s)))

favorites_is_favorite(db, user_id, s, up) ==
    IF ~up THEN Ret(db, Err("Storage"))
    ELSE Ret(db, Ok(<<user_id, s>> \in db.favorites))

SeqRange(xs) == { xs[i] : i \in 1..Len(xs) }

favorites_are_favorite(db, user_id, slugs, up) ==
    IF ~up THEN Ret(db, Err("Storage"))
    ELSE Ret(db, Ok([s \in SeqRange(slugs) |-> <<user_id, s>> \in db.favorites]))

followers_is_following(db, follower_id, followed_id, up) ==
    IF ~up THEN Ret(db, Err("Storage"))
    ELSE Ret(db, Ok(<<follower_id, followed_id>> \in db.followers))

\* The follow and unfollow writes: operations outside this file, under the
\* foreign keys and the check follower_id # followed_id of the table.
followers_follow(db, follower_id, followed_id, up) ==
    IF ~up THEN Ret(db, Err("Storage"))
    ELSE IF follower_id = followed_id THEN Ret(db, Err("CheckViolation"))
    ELSE IF follower_id \notin UserIds \/ followed_id \notin UserIds
    THEN Ret(db, Err("ForeignKeyViolation"))
    ELSE Ret([db EXCEPT !.followers = @ \cup {<<follower_id, followed_id>>}],
             Ok("unit"))

followers_unfollow(db, follower_id, followed_id, up) ==
    IF ~up THEN Ret(db, Err("Storage"))
    ELSE Ret([db EXCEPT !.followers = @ \ {<<follower_id, followed_id>>}],
             Ok("unit"))

users_find(db, user_id, up) ==
    IF ~up THEN Ret(db, Err("Storage"))
    ELSE IF user_id \notin UserIds THEN Ret(db, Err("NotFound"))
    ELSE Ret(db, Ok(UserRowOf(user_id)))

users_find_by_username(db, username, up) ==
    IF ~up THEN Ret(db, Err("Storage"))
    ELSE IF \A u \in UserRows : u.username # username
    THEN Ret(db, Err("NotFound"))
    ELSE Ret(db, Ok(CHOOSE u \in UserRows : u.username = username))

----------------------------------------------------------------------------
(* Error conversions of the ? operator (From impls of crate::domain) *)

PublishArticleError(e) ==
    IF e = "UniqueViolation" THEN "SlugAlreadyExists" ELSE "DatabaseError"

GetArticleError(e) == IF e = "NotFound" THEN "NotFound" ELSE "DatabaseError"

GetUserError(e) == IF e = "NotFound" THEN "NotFound" ELSE "DatabaseError"

DatabaseError(e) == "DatabaseError"

\* A repository operation that has further adapter calls to make.
Pending == [tag |-> "Pending"]

\* A repository operation that aborted its thread (unwrap, index out of a
\* map) instead of returning.
Panic == [tag |-> "Panic"]

----------------------------------------------------------------------------
(* impl UsersRepository for Repository *)

get_by_id(db, user_id, up) ==
    LET r == users_find(db, user_id, up) IN
    IF ~IsOk(r.res) THEN Ret(r.db, Err(GetUserError(r.res.error)))
    ELSE LET u == r.res.value
             profile == Profile(u.username, u.bio, u.image)
         IN Ret(r.db, Ok(User(u.id, u.email, profile)))

\* Mutant: the follow row is looked up from the viewed user to the viewer.
get_view_reversed(db, viewer, username, up) ==
    LET r1 == users_find_by_username(db, username, up) IN
    IF ~IsOk(r1.res) THEN Ret(db, Err(GetUserError(r1.res.error)))
    ELSE
    LET viewed_user == r1.res.value
        r2 == followers_is_following(db, viewed_user.id, viewer.id, up)
    IN
    IF ~IsOk(r2.res) THEN Ret(db, Err(GetUserError(r2.res.error)))
    ELSE Ret(db, Ok([profile |-> Profile(viewed_user.username, viewed_user.bio,
                                         viewed_user.image),
                     following |-> r2.res.value,
                     viewer |-> viewer.id]))

\* The first lookup reads the users table, whose rows no step of the model
\* writes; only the second reads a table that is written: one step.
get_view(db, viewer, username, up) ==
    LET r1 == users_find_by_username(db, username, up) IN
    IF ~IsOk(r1.res) THEN Ret(db, Err(GetUserError(r1.res.error)))
    ELSE
    LET viewed_user == r1.res.value
        r2 == followers_is_following(db, viewer.id, viewed_user.id, up)
    IN
    IF ~IsOk(r2.res) THEN Ret(db, Err(GetUserError(r2.res.error)))
    ELSE Ret(db, Ok([profile |-> Profile(viewed_user.username, viewed_user.bio,
                                         viewed_user.image),
                     following |-> r2.res.value,
                     viewer |-> viewer.id]))

----------------------------------------------------------------------------
(* impl ArticleRepository for Repository *)

\* Mutant: the insert's error is dropped and the article returned anyway.
publish_ignores_error(db, draft, author, t, up) ==
    LET r == articles_insert(db, NewArticle(draft, author), t, up)
        metadata == IF IsOk(r.res)
                    THEN ArticleMetadata(r.res.value.created_at,
                                         r.res.value.updated_at)
                    ELSE ArticleMetadata(t, t)
    IN Ret(r.db, Ok(Article(draft, slug(draft), author.profile, metadata, 0)))

\* Mutant: the metadata is not the inserted row's.
publish_default_metadata(db, draft, author, t, up) ==
    LET r == articles_insert(db, NewArticle(draft, author), t, up) IN
    IF ~IsOk(r.res) THEN Ret(r.db, Err(PublishArticleError(r.res.error)))
    ELSE Ret(r.db, Ok(Article(draft, slug(draft), author.profile,
                              ArticleMetadata(0, 0), 0)))

publish(db, draft, author, t, up) ==
    LET r == articles_insert(db, NewArticle(draft, author), t, up) IN
    IF ~IsOk(r.res) THEN Ret(r.db, Err(PublishArticleError(r.res.error)))
    ELSE LET result == r.res.value
             metadata == ArticleMetadata(result.created_at, result.updated_at)
             s == slug(draft)
             article == Article(draft, s, author.profile, metadata, 0)
         IN Ret(r.db, Ok(article))

get_by_slug(db, s, up) ==
    LET r == articles_find_one(db, s, up) IN
    IF ~IsOk(r.res) THEN Ret(r.db, Err(GetArticleError(r.res.error)))
    ELSE Ret(r.db, Ok(r.res.value))

\* Mutant: the rows are collected last to first.
find_articles_reversed(db, query, up) ==
    LET r == articles_find(db, query, up) IN
    IF ~IsOk(r.res) THEN Ret(r.db, Err(DatabaseError(r.res.error)))
    ELSE LET rows == r.res.value IN
         Ret(r.db, Ok([i \in 1..Len(rows) |->
                          ArticleOfRow(rows[Len(rows) + 1 - i])]))

find_articles(db, query, up) ==
    LET r == articles_find(db, query, up) IN
    IF ~IsOk(r.res) THEN Ret(r.db, Err(DatabaseError(r.res.error)))
    ELSE LET rows == r.res.value
             result == [i \in 1..Len(rows) |-> ArticleOfRow(rows[i])]
         IN Ret(r.db, Ok(result))

\* Mutant: the row to delete is found by the slug of the current title.
delete_article_by_title(db, article, up) ==
    LET r == articles_delete(db, slug(article.content), up) IN
    IF ~IsOk(r.res) THEN Ret(r.db, Err(DatabaseError(r.res.error)))
    ELSE Ret(r.db, Ok("unit"))

delete_article(db, article, up) ==
    LET r == articles_delete(db, article.slug, up) IN
    IF ~IsOk(r.res) THEN Ret(r.db, Err(DatabaseError(r.res.error)))
    ELSE Ret(r.db, Ok("unit"))

\* Mutant: the row to update is found by the slug of the new title.
update_article_write_new_slug(db, article, update, t, up) ==
    LET s == IF update.title = <<>> THEN article.slug
             ELSE slug([title |-> update.title[1]])
        r == articles_update(db, UpdateArticle(update), s, t, up)
    IN
    IF ~IsOk(r.res) THEN Ret(r.db, Err(DatabaseError(r.res.error)))
    ELSE Ret(r.db, Pending)

\* update_article, line 97: the write.
update_article_write(db, article, update, t, up) ==
    LET r == articles_update(db, UpdateArticle(update), article.slug, t, up) IN
    IF ~IsOk(r.res) THEN Ret(r.db, Err(DatabaseError(r.res.error)))
    ELSE Ret(r.db, Pending)

\* Mutant: when the re-read finds nothing the caller's article is returned.
update_article_reread_or_argument(db, article, up) ==
    LET r == get_by_slug(db, article.slug, up) IN
    IF ~IsOk(r.res) THEN Ret(r.db, Ok(article))
    ELSE Ret(r.db, Ok(r.res.value))

\* update_article, line 98: the re-read, in a transaction of its own.
update_article_reread(db, article, up) ==
    LET r == get_by_slug(db, article.slug, up) IN
    IF ~IsOk(r.res) THEN Ret(r.db, Err(DatabaseError(r.res.error)))
    ELSE Ret(r.db, Ok(r.res.value))

\* get_article_view, line 35: the author's profile view, unwrapped.
get_article_view_author(db, viewer, article, up) ==
    LET r == get_view(db, viewer, article.author.username, up) IN
    IF ~IsOk(r.res) THEN Ret(r.db, Panic)
    ELSE Ret(r.db, Ok(r.res.value))

\* Mutant: the view does not carry the article's favorites_count.
get_article_view_favorite_no_count(db, viewer, article, author_view, up) ==
    LET r == favorites_is_favorite(db, viewer.id, article.slug, up) IN
    IF ~IsOk(r.res) THEN Ret(r.db, Err(GetArticleError(r.res.error)))
    ELSE Ret(r.db, Ok([content |-> article.content,
                       slug |-> article.slug,
                       author |-> author_view,
                       metadata |-> article.metadata,
                       favorited |-> r.res.value,
                       favorites_count |-> 0,
                       viewer |-> viewer.id]))

\* get_article_view, lines 36-46: the favorite lookup and the view.
get_article_view_favorite(db, viewer, article, author_view, up) ==
    LET r == favorites_is_favorite(db, viewer.id, article.slug, up) IN
    IF ~IsOk(r.res) THEN Ret(r.db, Err(GetArticleError(r.res.error)))
    ELSE Ret(r.db, Ok([content |-> article.content,
                       slug |-> article.slug,
                       author |-> author_view,
                       metadata |-> article.metadata,
                       favorited |-> r.res.value,
                       favorites_count |-> article.favorites_count,
                       viewer |-> viewer.id]))

\* Mutant: the last article's slug is left out of the batched lookup.
get_articles_views_favs_short(db, viewer, xs, up) ==
    LET slugs == [i \in 1..(Len(xs) - 1) |-> xs[i].slug]
        r == favorites_are_favorite(db, viewer.id, slugs, up)
    IN
    IF ~IsOk(r.res) THEN Ret(r.db, Err(DatabaseError(r.res.error)))
    ELSE Ret(r.db, Ok(r.res.value))

\* get_articles_views, lines 54-57: the batched favorites lookup.
get_articles_views_favs(db, viewer, xs, up) ==
    LET slugs == [i \in 1..Len(xs) |-> xs[i].slug]
        r == favorites_are_favorite(db, viewer.id, slugs, up)
    IN
    IF ~IsOk(r.res) THEN Ret(r.db, Err(DatabaseError(r.res.error)))
    ELSE Ret(r.db, Ok(r.res.value))

\* Mutant: the articles are mapped last to first.
into_iter_next_reversed(xs, done) == xs[Len(xs) - Len(done)]

\* get_articles_views, lines 58-59: the article the iterator yields once
\* the views in done are made.
into_iter_next(xs, done) == xs[Len(done) + 1]

\* Mutant: an author whose view cannot be made is shown as not followed.
article_view_default_author(db, viewer, a, favs, up) ==
    IF a.slug \notin DOMAIN favs THEN Ret(db, Panic)
    ELSE
    LET favorited == favs[a.slug]
        r == get_view(db, viewer, a.author.username, up)
        author_view == IF IsOk(r.res) THEN r.res.value
                       ELSE [profile |-> a.author, following |-> FALSE,
                             viewer |-> viewer.id]
    IN Ret(r.db, Ok([content |-> a.content,
                     slug |-> a.slug,
                     author |-> author_view,
                     metadata |-> a.metadata,
                     favorited |-> favorited,
                     favorites_count |-> a.favorites_count,
                     viewer |-> viewer.id]))

\* Mutant: the closure asks the store again instead of reading the batched
\* map.
article_view_asks_again(db, viewer, a, favs, up) ==
    LET f == favorites_is_favorite(db, viewer.id, a.slug, up)
        r == get_view(db, viewer, a.author.username, up)
    IN
    IF ~IsOk(f.res) THEN Ret(db, Err(DatabaseError(f.res.error)))
    ELSE IF ~IsOk(r.res) THEN Ret(r.db, Err(DatabaseError(r.res.error)))
    ELSE Ret(r.db, Ok([content |-> a.content,
                       slug |-> a.slug,
                       author |-> r.res.value,
                       metadata |-> a.metadata,
                       favorited |-> f.res.value,
                       favorites_count |-> a.favorites_count,
                       viewer |-> viewer.id]))

\* get_articles_views, lines 60-73: the closure mapped over the articles.
\* favs[..] on a key the map lacks panics.
article_view(db, viewer, a, favs, up) ==
    IF a.slug \notin DOMAIN favs THEN Ret(db, Panic)
    ELSE
    LET favorited == favs[a.slug]
        r == get_view(db, viewer, a.author.username, up)
    IN
    IF ~IsOk(r.res) THEN Ret(r.db, Err(DatabaseError(r.res.error)))
    ELSE Ret(r.db, Ok([content |-> a.content,
                       slug |-> a.slug,
                       author |-> r.res.value,
                       metadata |-> a.metadata,
                       favorited |-> favorited,
                       favorites_count |-> a.favorites_count,
                       viewer |-> viewer.id]))

\* Mutant: the count returned is worked out from the article argument.
favorite_counts_from_argument(db, article, user, up) ==
    LET r == favorites_favorite(db, user.id, article.slug, up) IN
    IF ~IsOk(r.res) THEN Ret(r.db, Err(DatabaseError(r.res.error)))
    ELSE Ret(r.db,
             Ok([r.res.value EXCEPT
                   !.favorites_count =
                      article.favorites_count
                        + (IF r.res.value.outcome = "NewFavorite"
                           THEN 1 ELSE 0)]))

\* Mutant: favorite calls the adapter's unfavorite.
favorite_calls_unfavorite(db, article, user, up) ==
    LET r == favorites_unfavorite(db, user.id, article.slug, up) IN
    IF ~IsOk(r.res) THEN Ret(r.db, Err(DatabaseError(r.res.error)))
    ELSE r

favorite(db, article, user, up) ==
    LET r == favorites_favorite(db, user.id, article.slug, up) IN
    IF ~IsOk(r.res) THEN Ret(r.db, Err(DatabaseError(r.res.error)))
    ELSE r

\* Mutant: unfavorite calls the adapter's favorite.
unfavorite_calls_favorite(db, article, user, up) ==
    LET r == favorites_favorite(db, user.id, article.slug, up) IN
    IF ~IsOk(r.res) THEN Ret(r.db, Err(DatabaseError(r.res.error)))
    ELSE r

unfavorite(db, article, user, up) ==
    LET r == favorites_unfavorite(db, user.id, article.slug, up) IN
    IF ~IsOk(r.res) THEN Ret(r.db, Err(DatabaseError(r.res.error)))
    ELSE r

----------------------------------------------------------------------------
(* The callers *)

\* The authenticated users callers act as: get_by_id of each user row.
DomainUsers == { get_by_id(DB, id, TRUE).res.value : id \in UserIds }

\* The publish calls callers make: alice publishes "Hello, World", bob the
\* other drafts.
Publications ==
    { pub \in Drafts \X DomainUsers :
        (pub[2].id = "u1") <=> (pub[1].title = "Hello, World") }

\* An article a caller fetched at time 0 and still holds, whatever became
\* of its row since.
StaleArticle(d) ==
    Article(d, slug(d), Profile("alice", "hi", "a.png"),
            ArticleMetadata(0, 0), 1)

StaleArticles ==
    { StaleArticle(d) : d \in { x \in Drafts : x.title # "Hello World" } }

\* The Article values callers pass to the operations that read only the
\* slug of their argument: for each slug the article as stored, or a stale
\* one when its row is gone.
ArticleArgs ==
    { IF HasRow(DB, a.slug) THEN ArticleOfRow(RowOf(DB, a.slug)) ELSE a
      : a \in StaleArticles }

SeqsUpTo(S, n) == UNION { [1..k -> S] : k \in 0..n }

\* An article a caller holds whose author's username has no user row.
OrphanArticle ==
    [StaleArticle(CHOOSE d \in Drafts : d.title = "Second Post")
        EXCEPT !.author = Profile("carol", "", "")]

\* The articles callers pass to the operations that assemble views: read
\* from the store just now, or held since earlier.
ViewArticles ==
    { ArticleOfRow(r) : r \in articles }
      \cup { StaleArticle(CHOOSE d \in Drafts : d.title = "Hello, World"),
             OrphanArticle }

\* The article lists callers pass to get_articles_views: such articles in
\* any order; a slug occurs twice where a held and a stored article share it.
ArticleLists ==
    { xs \in SeqsUpTo(ViewArticles, MaxBatch) :
        \A i, j \in 1..Len(xs) : xs[i] = xs[j] => i = j }

\* The step executed last: the operation, the slug and user id it was
\* called on, the favorites_count of that slug before it, and its result.
Step(op, s, user_id, res) ==
    [op |-> op, slug |-> s, user |-> user_id, before |-> CountOf(DB, s),
     res |-> res]

NoStep == [op |-> "none", slug |-> "", user |-> "", before |-> 0,
           res |-> Pending]

Idle == [pc |-> "idle"]

Commit(db) ==
    /\ articles' = db.articles
    /\ favorites' = db.favorites
    /\ followers' = db.followers

----------------------------------------------------------------------------
(* The state machine of the store operations *)

Init ==
    /\ articles = {}
    /\ favorites = {}
    /\ followers = InitialFollowers
    /\ now = 0
    /\ inflight = {}
    /\ last = NoStep
    /\ view = Idle

\* The store's clock advances between transactions.
Tick ==
    /\ now < MaxClock
    /\ now' = now + 1
    /\ UNCHANGED <<articles, favorites, followers, inflight, last, view>>

PublishWrite(draft, author, up) ==
    /\ Commit(publish(DB, draft, author, now, up).db)
    /\ UNCHANGED <<now, inflight, view>>

Publish(draft, author, up) ==
    /\ PublishWrite(draft, author, up)
    /\ last' = Step("publish", slug(draft), author.id,
                    publish(DB, draft, author, now, up).res)

GetBySlug(s, up) ==
    /\ Commit(get_by_slug(DB, s, up).db)
    /\ last' = Step("get_by_slug", s, "", get_by_slug(DB, s, up).res)
    /\ UNCHANGED <<now, inflight, view>>

DeleteArticleWrite(article, up) ==
    /\ Commit(delete_article(DB, article, up).db)
    /\ UNCHANGED <<now, inflight, view>>

DeleteArticle(article, up) ==
    /\ DeleteArticleWrite(article, up)
    /\ last' = Step("delete_article", article.slug, "",
                    delete_article(DB, article, up).res)

\* update_article up to its write; the call stays in flight unless the
\* write failed.
UpdateArticleWrite(article, update, up) ==
    LET r == update_article_write(DB, article, update, now, up)
        call == [slug |-> article.slug, update |-> update]
    IN
    /\ r.res = Pending => Cardinality(inflight \cup {call}) <= MaxInflight
    /\ Commit(r.db)
    /\ inflight' = IF r.res = Pending THEN inflight \cup {call} ELSE inflight
    /\ last' = Step("update_article", article.slug, "", r.res)
    /\ UNCHANGED <<now, view>>

\* update_article from its re-read to its return.
UpdateArticleReread(call, up) ==
    LET r == update_article_reread(DB, [slug |-> call.slug], up) IN
    /\ Commit(r.db)
    /\ inflight' = inflight \ {call}
    /\ last' = Step("update_article", call.slug, "", r.res)
    /\ UNCHANGED <<now, view>>

FavoriteWrite(article, user, up) ==
    /\ Commit(favorite(DB, article, user, up).db)
    /\ UNCHANGED <<now, inflight, view>>

Favorite(article, user, up) ==
    /\ FavoriteWrite(article, user, up)
    /\ last' = Step("favorite", article.slug, user.id,
                    favorite(DB, article, user, up).res)

UnfavoriteWrite(article, user, up) ==
    /\ Commit(unfavorite(DB, article, user, up).db)
    /\ UNCHANGED <<now, inflight, view>>

Unfavorite(article, user, up) ==
    /\ UnfavoriteWrite(article, user, up)
    /\ last' = Step("unfavorite", article.slug, user.id,
                    unfavorite(DB, article, user, up).res)

\* A storage failure is drawn for publish, which tells it from a taken slug,
\* and for both calls of update_article, which it can separate.  A failed
\* get_by_slug, delete_article, favorite or unfavorite returns the converted
\* error and writes nothing: a step that changes nothing but last, not drawn.
Next ==
    \/ Tick
    \/ \E pub \in Publications, up \in BOOLEAN : Publish(pub[1], pub[2], up)
    \/ \E s \in Slugs : GetBySlug(s, TRUE)
    \/ \E article \in ArticleArgs : DeleteArticle(article, TRUE)
    \/ \E article \in ArticleArgs, update \in Updates, up \in BOOLEAN :
          UpdateArticleWrite(article, update, up)
    \/ \E call \in inflight, up \in BOOLEAN : UpdateArticleReread(call, up)
    \/ \E article \in ArticleArgs, user \in DomainUsers :
          Favorite(article, user, TRUE)
    \/ \E article \in ArticleArgs, user \in DomainUsers :
          Unfavorite(article, user, TRUE)

Spec == Init /\ [][Next]_vars

----------------------------------------------------------------------------
(* The state machine of a caller assembling views while other callers      *)
(* write.  The other callers' results are theirs: last is not recorded.    *)

\* The article's favorites_count is the store's count of its slug now.
Fresh(a) == HasRow(DB, a.slug) /\ a.favorites_count = CountOf(DB, a.slug)

\* The query with no criterion and no window field.
DefaultQuery ==
    [author |-> <<>>, favorited |-> <<>>, tag |-> <<>>, limit |-> <<>>,
     offset |-> <<>>]

\* find_articles by a caller that may go on to get_articles_views.
FindArticles(query, up) ==
    LET r == find_articles(DB, query, up) IN
    /\ view.pc \notin {"mapping", "assembling"}
    /\ Commit(r.db)
    /\ view' = [pc |-> "found", call |-> query, res |-> r.res]
    /\ UNCHANGED <<now, inflight, last>>

\* get_by_slug by the caller that goes on to get_article_view.
FetchBySlug(s) ==
    LET r == get_by_slug(DB, s, TRUE) IN
    /\ view.pc \notin {"mapping", "assembling"}
    /\ Commit(r.db)
    /\ view' = [pc |-> "fetched", call |-> s, res |-> r.res]
    /\ UNCHANGED <<now, inflight, last>>

\* What the caller holds from its last fetch.
HeldArticles ==
    IF view.pc = "fetched" /\ IsOk(view.res) THEN {view.res.value} ELSE {}

HeldLists ==
    IF view.pc = "found" /\ IsOk(view.res) /\ Len(view.res.value) <= MaxBatch
    THEN {view.res.value} ELSE {}

\* get_articles_views up to its batched lookup.  The call returns at once
\* when the lookup failed or there is no article to map.  seen, fresh: what
\* the store held when the lookup ran.
GetArticlesViewsFavs(viewer, xs, up) ==
    LET r == get_articles_views_favs(DB, viewer, xs, up)
        call == [viewer |-> viewer, articles |-> xs,
                 seen |-> { f \in favorites : f[1] = viewer.id },
                 fresh |-> { i \in 1..Len(xs) : Fresh(xs[i]) }]
    IN
    /\ view.pc \notin {"mapping", "assembling"}
    /\ Commit(r.db)
    /\ view' = IF ~IsOk(r.res)
               THEN [pc |-> "returned", call |-> call, res |-> r.res]
               ELSE IF xs = <<>>
               THEN [pc |-> "returned", call |-> call, res |-> Ok(<<>>)]
               ELSE [pc |-> "mapping", call |-> call, favs |-> r.res.value,
                     out |-> <<>>]
    /\ UNCHANGED <<now, inflight, last>>

\* get_articles_views: the closure on the next article; collect() returns
\* the first error, or the views when every article is mapped.
GetArticlesViewsNext(up) ==
    /\ view.pc = "mapping"
    /\ LET a == into_iter_next(view.call.articles, view.out)
           r == article_view(DB, view.call.viewer, a, view.favs, up)
       IN
       /\ Commit(r.db)
       /\ view' = IF ~IsOk(r.res)
                  THEN [pc |-> "returned", call |-> view.call, res |-> r.res]
                  ELSE IF Len(view.out) + 1 = Len(view.call.articles)
                  THEN [pc |-> "returned", call |-> view.call,
                        res |-> Ok(Append(view.out, r.res.value))]
                  ELSE [view EXCEPT !.out = Append(@, r.res.value)]
       /\ UNCHANGED <<now, inflight, last>>

\* get_article_view up to the author's profile view; the unwrap ends the
\* call when that lookup failed.
GetArticleViewAuthor(viewer, article, up) ==
    LET r == get_article_view_author(DB, viewer, article, up)
        call == [viewer |-> viewer, article |-> article]
    IN
    /\ view.pc \notin {"mapping", "assembling"}
    /\ Commit(r.db)
    /\ view' = IF ~IsOk(r.res)
               THEN [pc |-> "viewed", call |-> call, res |-> r.res]
               ELSE [pc |-> "assembling", call |-> call,
                     author_view |-> r.res.value]
    /\ UNCHANGED <<now, inflight, last>>

\* get_article_view from its favorite lookup to its return.  fresh: the
\* article's favorites_count is the store's at this lookup.
GetArticleViewFavorite(up) ==
    /\ view.pc = "assembling"
    /\ LET a == view.call.article
           r == get_article_view_favorite(DB, view.call.viewer, a,
                                          view.author_view, up)
       IN
       /\ Commit(r.db)
       /\ view' = [pc |-> "viewed", call |-> view.call, res |-> r.res,
                   fresh |-> Fresh(a)]
    /\ UNCHANGED <<now, inflight, last>>

\* The publish calls made while views are assembled.
ViewPublications == { pub \in Publications : pub[1].title # "Hello World" }

\* A write of another caller between two lookups of the view call.
OtherWrite ==
    /\ \/ \E pub \in ViewPublications : PublishWrite(pub[1], pub[2], TRUE)
       \/ \E article \in ArticleArgs : DeleteArticleWrite(article, TRUE)
       \/ \E article \in ArticleArgs, user \in DomainUsers :
             FavoriteWrite(article, user, TRUE)
       \/ \E article \in ArticleArgs, user \in DomainUsers :
             UnfavoriteWrite(article, user, TRUE)
    /\ UNCHANGED last

NextViews ==
    \/ OtherWrite
    \/ FindArticles(DefaultQuery, TRUE)
    \/ \E s \in Slugs : FetchBySlug(s)
    \/ \E viewer \in DomainUsers, xs \in ArticleLists \cup HeldLists,
          up \in BOOLEAN :
          GetArticlesViewsFavs(viewer, xs, up)
    \/ \E up \in BOOLEAN : GetArticlesViewsNext(up)
    \/ \E viewer \in DomainUsers, article \in ViewArticles \cup HeldArticles,
          up \in BOOLEAN :
          GetArticleViewAuthor(viewer, article, up)
    \/ \E up \in BOOLEAN : GetArticleViewFavorite(up)

SpecViews == Init /\ [][NextViews]_vars

----------------------------------------------------------------------------
(* The state machine of a caller listing articles while other callers      *)
(* write and the clock advances.                                           *)

\* The queries callers list with: at most one criterion or window field.
CallerQueries ==
    { q \in Queries :
        Cardinality({ f \in DOMAIN q : q[f] # <<>> }) <= 1 }

NextFind ==
    \/ Tick
    \/ OtherWrite
    \/ \E query \in CallerQueries, up \in BOOLEAN : FindArticles(query, up)

SpecFind == Init /\ [][NextFind]_vars

----------------------------------------------------------------------------
(* The state machine of a caller reading profiles while users follow and   *)
(* unfollow each other.                                                    *)

\* The usernames callers ask for; no user row has the last.
Usernames == { u.username : u \in UserRows } \cup { "carol" }

\* A follow request, as the followers table takes it.
Follow(follower_id, followed_id) ==
    LET r == followers_follow(DB, follower_id, followed_id, TRUE) IN
    /\ Commit(r.db)
    /\ last' = [op |-> "follow", follower |-> follower_id,
                followed |-> followed_id, res |-> r.res]
    /\ UNCHANGED <<now, inflight, view>>

Unfollow(follower_id, followed_id) ==
    LET r == followers_unfollow(DB, follower_id, followed_id, TRUE) IN
    /\ Commit(r.db)
    /\ last' = [op |-> "unfollow", follower |-> follower_id,
                followed |-> followed_id, res |-> r.res]
    /\ UNCHANGED <<now, inflight, view>>

GetView(viewer, username, up) ==
    LET r == get_view(DB, viewer, username, up) IN
    /\ Commit(r.db)
    /\ view' = [pc |-> "profile",
                call |-> [viewer |-> viewer, username |-> username],
                res |-> r.res]
    /\ UNCHANGED <<now, inflight, last>>

NextProfiles ==
    \/ \E f \in UserIds, g \in UserIds : Follow(f, g)
    \/ \E f \in UserIds, g \in UserIds : Unfollow(f, g)
    \/ \E viewer \in DomainUsers, username \in Usernames, up \in BOOLEAN :
          GetView(viewer, username, up)

SpecProfiles == Init /\ [][NextProfiles]_vars

----------------------------------------------------------------------------
(* Properties *)

FavoritesOf(db, s) == { f \in db.favorites : f[2] = s }

ExistingArgs == { a \in ArticleArgs : HasRow(DB, a.slug) }

\* C1: in every reachable state each stored article's favorites_count is
\* the number of favorite rows on its slug, and so is never negative.
C1_CountMatchesRows ==
    \A r \in articles :
        /\ r.favorites_count = Cardinality(FavoritesOf(DB, r.slug))
        /\ r.favorites_count >= 0

\* An unfavorite has removed one of two favorite rows of an article while
\* an update_article call on it is in flight.
C1_Witness ==
    /\ last.op = "unfavorite"
    /\ IsOk(last.res)
    /\ last.res.value.outcome = "WasFavorited"
    /\ last.before = 2
    /\ \E r \in articles : r.slug = last.slug /\ r.favorites_count = 1
    /\ \E call \in inflight : call.slug = last.slug

\* C2: from every state, for every existing article and every user, a
\* second favorite right after a first leaves the store as the first left
\* it and returns AlreadyFavorited; the first returns NewFavorite when the
\* pair was not present.
C2_FavoriteIdempotent ==
    \A a \in ExistingArgs, u \in DomainUsers :
        LET r1 == favorite(DB, a, u, TRUE)
            r2 == favorite(r1.db, a, u, TRUE)
        IN
        /\ IsOk(r1.res) /\ IsOk(r2.res)
        /\ r2.db = r1.db
        /\ r2.res.value.outcome = "AlreadyFavorited"
        /\ <<u.id, a.slug>> \notin favorites
             => r1.res.value.outcome = "NewFavorite"

\* A favorite call has run on a pair that was already a favorite.
C2_Witness ==
    /\ last.op = "favorite"
    /\ IsOk(last.res)
    /\ last.res.value.outcome = "AlreadyFavorited"
    /\ <<last.user, last.slug>> \in favorites

\* C3 as stated: from every state, favorite then unfavorite leaves the pair
\* not a favorite and the article's favorites_count at its value before the
\* favorite call.
C3_Original ==
    \A a \in ExistingArgs, u \in DomainUsers :
        LET r1 == favorite(DB, a, u, TRUE)
            r2 == unfavorite(r1.db, a, u, TRUE)
        IN
        /\ <<u.id, a.slug>> \notin r2.db.favorites
        /\ CountOf(r2.db, a.slug) = CountOf(DB, a.slug)

\* C3 as amended: favorite then unfavorite leaves the pair not a favorite;
\* the favorites_count is back at its value before the favorite call when
\* the pair was not a favorite before it, and one below when it was.
C3_FavoriteThenUnfavorite ==
    \A a \in ExistingArgs, u \in DomainUsers :
        LET r1 == favorite(DB, a, u, TRUE)
            r2 == unfavorite(r1.db, a, u, TRUE)
            was == <<u.id, a.slug>> \in favorites
        IN
        /\ IsOk(r1.res) /\ IsOk(r2.res)
        /\ <<u.id, a.slug>> \notin r2.db.favorites
        /\ CountOf(r2.db, a.slug) = CountOf(DB, a.slug) - (IF was THEN 1 ELSE 0)
        /\ ~was => r2.db = DB

\* An unfavorite has just undone, on an article another user favorites, a
\* favorite it found in place.
C3_Witness ==
    /\ last.op = "unfavorite"
    /\ IsOk(last.res)
    /\ last.res.value.outcome = "WasFavorited"
    /\ last.res.value.favorites_count = 1
    /\ <<last.user, last.slug>> \notin favorites

\* C4: unfavorite on a pair that is not a favorite returns WasNotFavorited
\* and changes nothing; on a favorite it returns WasFavorited, removes
\* exactly that row and takes one off that article's favorites_count only.
C4_UnfavoriteFrame ==
    \A a \in ArticleArgs, u \in DomainUsers :
        LET r == unfavorite(DB, a, u, TRUE) IN
        /\ IsOk(r.res)
        /\ IF <<u.id, a.slug>> \notin favorites
           THEN /\ r.res.value.outcome = "WasNotFavorited"
                /\ r.db = DB
           ELSE /\ r.res.value.outcome = "WasFavorited"
                /\ r.db.favorites = favorites \ {<<u.id, a.slug>>}
                /\ r.db.followers = followers
                /\ r.db.articles =
                     { IF x.slug = a.slug
                       THEN [x EXCEPT !.favorites_count = @ - 1]
                       ELSE x : x \in articles }

\* An unfavorite on a pair that was no favorite has run while the store
\* held favorite rows, on that article too.
C4_Witness ==
    /\ last.op = "unfavorite"
    /\ IsOk(last.res)
    /\ last.res.value.outcome = "WasNotFavorited"
    /\ last.before = 1
    /\ Cardinality(favorites) = 2

\* No row, no favorite row and no lookup finds the slug.
Gone(s) ==
    /\ get_by_slug(DB, s, TRUE).res = Err("NotFound")
    /\ \A id \in UserIds : favorites_is_favorite(DB, id, s, TRUE).res = Ok(FALSE)

\* C5: a successful delete_article leaves its slug gone (get_by_slug is
\* NotFound, is_favorite false for every user), and a slug that is gone
\* stays gone over every step but a successful publish of that slug.
C5_DeletedStaysGone ==
    [][\A s \in Slugs :
          /\ (last'.op = "delete_article" /\ last'.slug = s /\ IsOk(last'.res))
                => Gone(s)'
          /\ (Gone(s) /\ ~Gone(s)')
                => (last'.op = "publish" /\ last'.slug = s /\ IsOk(last'.res))
      ]_vars

\* A delete_article has removed an article two users favorited.
C5_Witness ==
    /\ last.op = "delete_article"
    /\ IsOk(last.res)
    /\ last.before = 2
    /\ Gone(last.slug)
    /\ favorites # {}

\* C6: every favorite row refers to a user row and an article row in every
\* state a caller can observe, and favorite on an article whose row is gone
\* adds no row and returns an error, not NewFavorite.
C6_FavoritesReferToRows ==
    /\ \A f \in favorites : f[1] \in UserIds /\ HasRow(DB, f[2])
    /\ \A a \in ArticleArgs \ ExistingArgs, u \in DomainUsers :
          LET r == favorite(DB, a, u, TRUE) IN
          /\ r.db = DB
          /\ r.res = Err("DatabaseError")

\* A favorite call on a deleted article has failed while the other article
\* still has favorite rows.
C6_Witness ==
    /\ last.op = "favorite"
    /\ last.res = Err("DatabaseError")
    /\ ~HasRow(DB, last.slug)
    /\ favorites # {}
    /\ \A f \in favorites : f[2] # last.slug

\* C7: no two article rows have the same slug; publish on a stored slug
\* returns SlugAlreadyExists and changes nothing; of two publish calls on
\* the same free slug, in either order of their inserts, exactly one
\* returns an Article.
C7_SlugsUnique ==
    /\ \A r1, r2 \in articles : r1.slug = r2.slug => r1 = r2
    /\ \A pub \in Publications :
          HasRow(DB, slug(pub[1]))
            => publish(DB, pub[1], pub[2], now, TRUE)
                 = Ret(DB, Err("SlugAlreadyExists"))
    /\ \A p1, p2 \in Publications :
          (slug(p1[1]) = slug(p2[1]) /\ ~HasRow(DB, slug(p1[1])))
            => LET r1 == publish(DB, p1[1], p1[2], now, TRUE)
                   r2 == publish(r1.db, p2[1], p2[2], now, TRUE)
               IN /\ IsOk(r1.res)
                  /\ r2.res = Err("SlugAlreadyExists")
                  /\ r2.db = r1.db

\* A publish of another draft with the slug of a stored, favorited
\* article has returned SlugAlreadyExists.
C7_Witness ==
    /\ last.op = "publish"
    /\ last.res = Err("SlugAlreadyExists")
    /\ \E r \in articles :
          /\ r.slug = last.slug
          /\ r.author_id # last.user
          /\ r.favorites_count = 1

\* C8: the Article a successful publish returns is what get_by_slug of its
\* slug returns right after: slug of the draft, the draft's content and
\* tags, the author's profile, the row's metadata, favorites_count 0.
C8_PublishThenGet ==
    \A pub \in Publications :
        LET r == publish(DB, pub[1], pub[2], now, TRUE) IN
        IsOk(r.res) =>
            /\ get_by_slug(r.db, r.res.value.slug, TRUE).res = r.res
            /\ r.res.value.slug = slug(pub[1])
            /\ r.res.value.content = pub[1]
            /\ r.res.value.author = pub[2].profile
            /\ r.res.value.favorites_count = 0
            /\ r.res.value.metadata = ArticleMetadata(now, now)

\* A publish has succeeded after the clock advanced, and get_by_slug
\* returns its article.
C8_Witness ==
    /\ last.op = "publish"
    /\ IsOk(last.res)
    /\ last.res.value.metadata.created_at = 1
    /\ get_by_slug(DB, last.slug, TRUE).res = last.res

\* C9: a get_articles_views call that returns Ok returns one view per
\* input article, in input order: view i has the slug, content, metadata
\* and favorites_count of article i of the input.
C9_ViewsKeepOrder ==
    (view.pc = "returned" /\ IsOk(view.res)) =>
        LET xs == view.call.articles
            out == view.res.value
        IN
        /\ Len(out) = Len(xs)
        /\ \A i \in 1..Len(xs) :
              /\ out[i].slug = xs[i].slug
              /\ out[i].content = xs[i].content
              /\ out[i].metadata = xs[i].metadata
              /\ out[i].favorites_count = xs[i].favorites_count

\* A call on two articles of different slugs has returned Ok, the first
\* article carrying a favorites_count that is not the store's.
C9_Witness ==
    /\ view.pc = "returned"
    /\ IsOk(view.res)
    /\ Len(view.call.articles) = 2
    /\ view.call.articles[1].slug # view.call.articles[2].slug
    /\ view.call.articles[1].favorites_count
         # CountOf(DB, view.call.articles[1].slug)

\* C10: the batched lookup's map has every input slug as a key, so the
\* call never fails on a key lookup, and each returned favorited flag is
\* whether (viewer.id, slug) was a favorite row when the lookup ran; false
\* for a slug the viewer did not favorite or that has no row.
C10_FavoritedIsMembership ==
    /\ view.pc = "returned" => view.res # Panic
    /\ view.pc = "mapping" =>
          \A i \in 1..Len(view.call.articles) :
              LET s == view.call.articles[i].slug IN
              /\ s \in DOMAIN view.favs
              /\ view.favs[s] = (<<view.call.viewer.id, s>> \in view.call.seen)
    /\ (view.pc = "returned" /\ IsOk(view.res)) =>
          \A i \in 1..Len(view.call.articles) :
              view.res.value[i].favorited
                = (<<view.call.viewer.id, view.call.articles[i].slug>>
                     \in view.call.seen)

\* A call has returned favorited = true for one article and favorited =
\* false for an article whose slug had no row when the lookup ran.
C10_Witness ==
    /\ view.pc = "returned"
    /\ IsOk(view.res)
    /\ Len(view.res.value) = 2
    /\ view.res.value[1].favorited
    /\ ~view.res.value[2].favorited
    /\ ~HasRow(DB, view.call.articles[2].slug)
    /\ view.call.seen = { f \in favorites : f[1] = view.call.viewer.id }

\* The views a get_articles_views call has made so far.
ViewsMade ==
    IF view.pc = "mapping" THEN view.out
    ELSE IF view.pc = "returned" /\ IsOk(view.res) THEN view.res.value
    ELSE <<>>

\* C11: every favorited flag a get_articles_views call has produced, while
\* it maps and when it returns, is the viewer's membership in one store
\* state, the one its batched lookup read after the call started, whatever
\* favorite and unfavorite calls of the viewer commit before it returns.
C11_FlagsFromOneSnapshot ==
    \A i \in 1..Len(ViewsMade) :
        ViewsMade[i].favorited
          = (<<view.call.viewer.id, ViewsMade[i].slug>> \in view.call.seen)

\* A call has returned two views while the viewer toggled both articles
\* after its lookup: each flag is the pre-toggle value, none the store's.
C11_Witness ==
    /\ view.pc = "returned"
    /\ IsOk(view.res)
    /\ Len(view.res.value) = 2
    /\ view.res.value[1].slug # view.res.value[2].slug
    /\ view.res.value[1].favorited
    /\ ~view.res.value[2].favorited
    /\ \A i \in 1..2 :
          view.res.value[i].favorited
            # (<<view.call.viewer.id, view.res.value[i].slug>> \in favorites)

\* C12: no follow row has follower_id = followed_id; get_view of a user on
\* their own username returns following = false, and get_view of a viewer
\* on any user's username returns following = true exactly when the row
\* (viewer.id, that user's id) is in the followers table.
C12_FollowingIsFollowRow ==
    /\ \A f \in followers : f[1] # f[2]
    /\ \A v \in DomainUsers :
          LET r == get_view(DB, v, v.profile.username, TRUE) IN
          /\ IsOk(r.res)
          /\ r.res.value.following = FALSE
    /\ \A v \in DomainUsers, u \in UserRows :
          LET r == get_view(DB, v, u.username, TRUE) IN
          /\ IsOk(r.res)
          /\ r.res.value.following = (<<v.id, u.id>> \in followers)
          /\ r.res.value.profile = Profile(u.username, u.bio, u.image)

\* A user's request to follow themselves was refused while both users
\* follow each other, and that user's view of their own profile has
\* following = false.
C12_Witness ==
    /\ last.op = "follow"
    /\ last.follower = last.followed
    /\ ~IsOk(last.res)
    /\ Cardinality(followers) = 2
    /\ view.pc = "profile"
    /\ view.call.viewer.id = last.follower
    /\ view.call.username = view.call.viewer.profile.username
    /\ IsOk(view.res)
    /\ ~view.res.value.following

\* C13: get_article_view ends only by returning an ArticleView or a
\* GetArticleError; a failed author profile lookup (no user row for the
\* author's username, or a storage failure) comes back as a typed error and
\* the call does not abort.
C13_ReturnsTypedError ==
    view.pc = "viewed" =>
        \/ IsOk(view.res)
        \/ view.res \in { Err("NotFound"), Err("DatabaseError") }

\* Every patch over (title, description, body).
Patches ==
    [title : {<<>>, <<"Retitled">>}, description : {<<>>, <<"d2">>},
     body : {<<>>, <<"b2">>}]

\* C14: update_article on a stored article, with any patch, gives each of
\* title, description, body the patch value when present and leaves it
\* when absent, sets updated_at to the commit time, and changes nothing
\* else: slug (also under a new title), tags, author, created_at,
\* favorites_count, favorite rows and every other article; it returns the
\* row as written, and created_at <= updated_at holds of every row.
C14_UpdateFrame ==
    /\ \A r \in articles : r.created_at <= r.updated_at
    /\ \A a \in ExistingArgs, update \in Patches :
          LET w == update_article_write(DB, a, update, now, TRUE)
              rr == update_article_reread(w.db, a, TRUE)
              old == RowOf(DB, a.slug)
              new == RowOf(w.db, a.slug)
          IN
          /\ w.res = Pending
          /\ new.title = (IF update.title = <<>> THEN old.title
                          ELSE update.title[1])
          /\ new.description = (IF update.description = <<>>
                                THEN old.description
                                ELSE update.description[1])
          /\ new.body = (IF update.body = <<>> THEN old.body
                         ELSE update.body[1])
          /\ new.updated_at = now
          /\ new.created_at <= new.updated_at
          /\ [new EXCEPT !.title = old.title,
                         !.description = old.description,
                         !.body = old.body,
                         !.updated_at = old.updated_at] = old
          /\ w.db.articles \ {new} = articles \ {old}
          /\ w.db.favorites = favorites
          /\ w.db.followers = followers
          /\ rr = Ret(w.db, Ok(ArticleOfRow(new)))

\* An update_article call has returned a favorited article under its old
\* slug with the new title, the description it had, and updated_at past
\* created_at.
C14_Witness ==
    /\ last.op = "update_article"
    /\ IsOk(last.res)
    /\ last.res.value.slug = "hello-world"
    /\ last.res.value.content.title = "Retitled"
    /\ last.res.value.content.description = "greet"
    /\ last.res.value.content.tag_list = {"intro"}
    /\ last.res.value.metadata.created_at < last.res.value.metadata.updated_at
    /\ last.res.value.favorites_count = 1
    /\ last.res.value = ArticleOfRow(RowOf(DB, "hello-world"))

\* C15: the Article a successful update_article returns has the patch
\* value in every field its patch holds, whatever update_article or
\* delete_article call on the slug commits between its write and its
\* re-read.
C15_ReturnsWhatItWrote ==
    [][\A call \in inflight :
          (call \notin inflight' /\ IsOk(last'.res)) =>
              LET content == last'.res.value.content IN
              /\ call.update.title # <<>>
                    => content.title = call.update.title[1]
              /\ call.update.description # <<>>
                    => content.description = call.update.description[1]
              /\ call.update.body # <<>>
                    => content.body = call.update.body[1]
      ]_vars

\* C16: the favorites_count in the outcome of favorite or unfavorite, in
\* either variant, is the number of favorite rows of the slug in the store
\* the call leaves, whatever favorites_count the article argument carries
\* and whatever other users' calls came before.
C16_OutcomeCountIsRows ==
    /\ (last.op \in {"favorite", "unfavorite"} /\ IsOk(last.res)) =>
          last.res.value.favorites_count
            = Cardinality(FavoritesOf(DB, last.slug))
    /\ \A a \in ArticleArgs, n \in 0..2, u \in DomainUsers :
          LET held == [a EXCEPT !.favorites_count = n]
              f == favorite(DB, held, u, TRUE)
              g == unfavorite(DB, held, u, TRUE)
          IN
          /\ IsOk(f.res) =>
                f.res.value.favorites_count
                  = Cardinality(FavoritesOf(f.db, a.slug))
          /\ IsOk(g.res)
          /\ g.res.value.favorites_count
                = Cardinality(FavoritesOf(g.db, a.slug))

\* A favorite on a pair already in place has returned AlreadyFavorited
\* with count 2, the other user's favorite included.
C16_Witness ==
    /\ last.op = "favorite"
    /\ IsOk(last.res)
    /\ last.res.value.outcome = "AlreadyFavorited"
    /\ last.res.value.favorites_count = 2
    /\ Cardinality(FavoritesOf(DB, last.slug)) = 2

\* C19: update_article on a slug with no row writes nothing and returns
\* DatabaseError, whether the row was never there or went between the
\* call's write and its re-read; a call that returns an Article leaves a
\* row on its slug, and none appears on a slug that had none.
C19_UpdateOfMissing ==
    /\ \A a \in ArticleArgs \ ExistingArgs, update \in Patches :
          LET w == update_article_write(DB, a, update, now, TRUE)
              rr == update_article_reread(w.db, a, TRUE)
          IN
          /\ w.db = DB
          /\ rr = Ret(DB, Err("DatabaseError"))
    /\ \A call \in inflight :
          ~HasRow(DB, call.slug) =>
              update_article_reread(DB, [slug |-> call.slug], TRUE)
                = Ret(DB, Err("DatabaseError"))
    /\ (last.op = "update_article" /\ IsOk(last.res)) =>
          /\ HasRow(DB, last.slug)
          /\ last.res.value.slug = last.slug

\* An update_article call whose article was deleted after its write has
\* returned DatabaseError, and the slug has no row.
C19_Witness ==
    /\ last.op = "update_article"
    /\ last.res = Err("DatabaseError")
    /\ last.before = 0
    /\ ~HasRow(DB, last.slug)
    /\ inflight = {}
    /\ articles # {}

\* The stored articles that satisfy every criterion of a query.
Matching(query) ==
    { ArticleOfRow(r) : r \in
        { x \in articles :
            /\ query.author # <<>> =>
                  \E u \in UserRows : /\ u.id = x.author_id
                                       /\ u.username = query.author[1]
            /\ query.favorited # <<>> =>
                  \E u \in UserRows : /\ u.username = query.favorited[1]
                                       /\ <<u.id, x.slug>> \in favorites
            /\ query.tag # <<>> => query.tag[1] \in x.tag_list } }

\* Newer first, then the slug that sorts first.
Precedes(a, b) ==
    \/ a.metadata.created_at > b.metadata.created_at
    \/ /\ a.metadata.created_at = b.metadata.created_at
       /\ \E i, j \in 1..Len(SlugOrder) :
             i < j /\ SlugOrder[i] = a.slug /\ SlugOrder[j] = b.slug

\* The window a query asks for: limit 20 when absent, offset 0 when absent,
\* negative values taken as 0, limit at most MaxLimit.
AskedLimit(query) ==
    IF query.limit = <<>> THEN 20
    ELSE IF query.limit[1] < 0 THEN 0
    ELSE IF query.limit[1] > MaxLimit THEN MaxLimit ELSE query.limit[1]

AskedOffset(query) ==
    IF query.offset = <<>> \/ query.offset[1] < 0 THEN 0 ELSE query.offset[1]

WindowLen(n, query) ==
    LET rest == n - AskedOffset(query) IN
    IF rest < 0 THEN 0
    ELSE IF rest < AskedLimit(query) THEN rest ELSE AskedLimit(query)

\* C17: for every query and store state find_articles returns, without
\* writing, the stored articles that satisfy all the given criteria,
\* newest first and then by slug, from position offset + 1 on and limit of
\* them at most (limit 20 and offset 0 when absent, negatives taken as 0,
\* limit capped at MaxLimit); of a list longer than the cap the window
\* holds no more than the cap.
C17_FindArticles ==
    /\ \A query \in Queries :
          LET r == find_articles(DB, query, TRUE)
              out == r.res.value
              M == Matching(query)
          IN
          /\ r.db = DB
          /\ IsOk(r.res)
          /\ Len(out) = WindowLen(Cardinality(M), query)
          /\ Len(out) <= MaxLimit
          /\ \A i \in 1..Len(out) :
                /\ out[i] \in M
                /\ Cardinality({ m \in M : Precedes(m, out[i]) })
                     = AskedOffset(query) + i - 1
    /\ \A n \in {MaxLimit + 1, MaxLimit + 50} :
          \A limit \in {<<>>, <<-1>>, <<1>>, <<200>>},
             offset \in {<<>>, <<-1>>, <<1>>} :
              LET query == [limit |-> limit, offset |-> offset]
                  out == Window([i \in 1..n |-> i], query)
              IN
              /\ Len(out) = WindowLen(n, query)
              /\ Len(out) <= MaxLimit
              /\ \A i \in 1..Len(out) : out[i] = AskedOffset(query) + i

\* A listing with no criterion has returned both articles, the newer one
\* first although its slug sorts last, and a favorite count from the store.
C17_Witness ==
    /\ view.pc = "found"
    /\ IsOk(view.res)
    /\ view.call.author = <<>> /\ view.call.limit = <<>>
    /\ view.call.offset = <<>>
    /\ Len(view.res.value) = 2
    /\ view.res.value[1].slug = "second-post"
    /\ view.res.value[2].slug = "hello-world"
    /\ view.res.value[1].metadata.created_at
         > view.res.value[2].metadata.created_at
    /\ view.res.value[2].favorites_count = 1

\* C18: a get_articles_views call returns DatabaseError or one view per
\* input article, each with the profile view of its article's author; it
\* returns no shorter list, no view of an article whose author lookup
\* fails, and it does not abort.
C18_AllOrNothing ==
    view.pc = "returned" =>
        \/ view.res = Err("DatabaseError")
        \/ /\ IsOk(view.res)
           /\ Len(view.res.value) = Len(view.call.articles)
           /\ \A i \in 1..Len(view.call.articles) :
                 LET a == view.call.articles[i]
                     author == get_view(DB, view.call.viewer,
                                        a.author.username, TRUE)
                 IN
                 /\ view.res.value[i].slug = a.slug
                 /\ IsOk(author.res)
                 /\ view.res.value[i].author = author.res.value

\* A call on a stored article followed by an article whose author has no
\* user row has returned DatabaseError after making the first view.
C18_Witness ==
    /\ view.pc = "returned"
    /\ view.res = Err("DatabaseError")
    /\ Len(view.call.articles) = 2
    /\ view.call.articles[2] = OrphanArticle
    /\ view.call.articles[1].author.username = "alice"
    /\ HasRow(DB, view.call.articles[1].slug)

\* The views the caller has been handed: by get_article_view, or by
\* get_articles_views, each with whether its article was fresh at the
\* favorites lookup.
ViewsReturned ==
    IF view.pc = "viewed" /\ IsOk(view.res)
    THEN { [view |-> view.res.value, article |-> view.call.article,
            fresh |-> view.fresh] }
    ELSE IF view.pc = "returned" /\ IsOk(view.res)
    THEN { [view |-> view.res.value[i], article |-> view.call.articles[i],
            fresh |-> i \in view.call.fresh]
           : i \in 1..Len(view.res.value) }
    ELSE {}

\* C20 as stated: every view handed to a caller with favorited = true has
\* favorites_count >= 1.
C20_Original ==
    \A v \in ViewsReturned :
        v.view.favorited => v.view.favorites_count >= 1

\* C20 as amended: a view carries the favorites_count of the article it
\* was made from; favorited = true implies favorites_count >= 1 when that
\* count was the store's count of the slug at the favorites lookup.
C20_ViewFromFetchAndLookup ==
    \A v \in ViewsReturned :
        /\ v.view.favorites_count = v.article.favorites_count
        /\ (v.fresh /\ v.view.favorited) => v.view.favorites_count >= 1

\* get_articles_views has returned, for a list the caller fetched with
\* find_articles, one view made from a fresh article with favorited = true
\* and one with favorited = true and favorites_count = 0.
C20_Witness ==
    /\ view.pc = "returned"
    /\ IsOk(view.res)
    /\ Len(view.res.value) = 2
    /\ view.call.fresh = {1}
    /\ view.res.value[1].favorited
    /\ view.res.value[1].favorites_count = 1
    /\ view.res.value[2].favorited
    /\ view.res.value[2].favorites_count = 0

============================================================================
